---- MODULE Spec2Model ----
(***************************************************************************)
(* pytwitter.streaming.StreamApi: the streaming connection lifecycle.      *)
(*                                                                         *)
(* One StreamApi instance is shared by the threads of Threads.  Each       *)
(* thread of `callers` may call sample(); disconnect() may be called by    *)
(* anybody at any moment.  The instance's only shared mutable field is     *)
(* `running`; the locals of _connect (retries, http_error_wait) are per    *)
(* call.  The server and the transport are the environment: they choose    *)
(* the status of every connection attempt, the lines of a stream, where a  *)
(* stream ends and where the transport raises.                             *)
(*                                                                         *)
(* Every step of a thread is one read or one write of `running` together   *)
(* with the thread-local code around it, so every interleaving of the      *)
(* shared field that the interpreter can produce is a behaviour here.      *)
(*                                                                         *)
(* The program state is running, auth, max_retries, return_json, pc,       *)
(* retries and http_error_wait.  The other variables observe the calls of  *)
(* one thread, Observed: what its current (or last) sample() call opened,  *)
(* slept, dispatched and returned.  The threads run the same code, so      *)
(* what holds of the observed thread's calls holds of every thread's.      *)
(***************************************************************************)
EXTENDS Integers, Sequences, FiniteSets, TLC

\* ------------------------------------------------------------------ bounds
\* Largest max_retries a controller is constructed with when one thread
\* calls sample().
MaxRetries == 8
\* Largest max_retries when two threads call sample() on the instance.
MaxRetriesShared == 2
\* Number of environment events over a behaviour: sample() invocations,
\* disconnect() invocations, 200 responses and lines sent by the server.
\* (Non-200 responses and transport faults are bounded by max_retries.)
MaxEvents == 6

\* ------------------------------------------------------- program constants
\* streaming.py:91   http_error_wait = 5
http_error_wait_init == 5
\* streaming.py:92   http_error_wait_max = 320
http_error_wait_max == 320

Threads == {"t1", "t2"}
Observed == "t1"

\* What one line of the wire can be: a blank line (keep-alive), a JSON
\* object with "data", a JSON object with a top-level "errors" field, or
\* bytes that are not JSON.
Lines == {"blank", "tweet", "errors", "garbage"}

VARIABLES
    running,          \* self.running
    auth,             \* self._auth is set
    max_retries,      \* self.max_retries
    callers,          \* the threads that call sample() on this instance
    return_json,      \* the return_json argument the callers pass
    pc,               \* where each thread is in sample()/_connect()
    retries,          \* local `retries` of _connect, per thread
    http_error_wait,  \* local `http_error_wait` of _connect, per thread
    \* -- observations of the current (or last) call of Observed
    opened,           \* connections opened by session.get
    consec,           \* non-200 responses since the last 200 response
    errs,             \* on_request_error invocations
    sleeps,           \* durations given to time.sleep, in order
    wire,             \* lines delivered by iter_lines, in order
    calls,            \* on_tweet / on_keep_alive invocations, in order
    why,              \* why the while loop was left
    outcome,          \* how sample() ended
    cancelAt,         \* where the call was when disconnect() was first called
    linesAfter,       \* lines dispatched since that disconnect() (0, 1, many)
    sawStop,          \* the loop has read running == False
    closed,           \* session.close() has run in this call
    fails,            \* non-200 responses received
    openedAtCancel,   \* value of `opened` when disconnect() was first called
    \* -- the environment's budget
    budget            \* environment events so far (see MaxEvents)

prog == <<running, auth, max_retries, callers, return_json, pc, retries,
          http_error_wait>>
obs == <<opened, consec, errs, sleeps, wire, calls, why, outcome, cancelAt,
         linesAfter, sawStop, closed, fails, openedAtCancel>>
env == <<budget>>
vars == <<prog, obs, env>>

\* pc values at which the thread is inside _connect's try block.
InLoop == {"loop", "iter", "linecheck", "sleep"}
\* pc values at which the thread holds an open response (inside `with`).
ConnOpen == {"iter", "linecheck", "sleep"}
\* pc values at which the thread is inside sample().
InCall == {"check", "enter", "loop", "iter", "linecheck", "sleep", "finally"}

\* Where a call is, as far as a disconnect() is concerned: before _connect
\* has written running = True, reading the stream, in the backoff sleep, or
\* elsewhere in the call.
Phase(p) ==
    IF p \in {"check", "enter"} THEN "early"
    ELSE IF p \in {"iter", "linecheck"} THEN "streaming"
    ELSE IF p = "sleep" THEN "sleep"
    ELSE "other"

Min(a, b) == IF a < b THEN a ELSE b

RECURSIVE Pow2(_)
Pow2(n) == IF n <= 0 THEN 1 ELSE 2 * Pow2(n - 1)

\* ---------------------------------------------------------------- Init
\* __init__ (streaming.py:32-54): running = False, _auth set (the
\* constructor raises otherwise), max_retries as given.
Init ==
    /\ running = FALSE
    /\ auth = TRUE
    /\ \/ callers = {Observed} /\ max_retries \in 1..MaxRetries
       \/ callers = Threads /\ max_retries \in 1..MaxRetriesShared
    /\ return_json \in BOOLEAN
    /\ pc = [t \in Threads |-> "idle"]
    /\ retries = [t \in Threads |-> 0]
    /\ http_error_wait = [t \in Threads |-> http_error_wait_init]
    /\ opened = 0
    /\ consec = 0
    /\ errs = 0
    /\ sleeps = <<>>
    /\ wire = <<>>
    /\ calls = <<>>
    /\ why = "none"
    /\ outcome = "none"
    /\ cancelAt = "none"
    /\ linesAfter = 0
    /\ sawStop = FALSE
    /\ closed = FALSE
    /\ fails = 0
    /\ openedAtCancel = 0
    /\ budget = 0

\* ------------------------------------------------------------- helpers
Upd(f, t, v) == [f EXCEPT ![t] = v]

\* The new value of an observation when thread t takes the step.
Obs(t, new, old) == IF t = Observed THEN new ELSE old

Saturate(n) == Min(n + 1, 2)

\* streaming.py:95   while self.running and retries < self.max_retries
LoopCond(run, r, m) == run /\ r < m

\* streaming.py:118  http_error_wait *= 2
DoubleWait(w) == w * 2

\* The break of line 119 taken one doubling late.
WaitExceeded_Late(w) == w > 2 * http_error_wait_max

\* streaming.py:119  if http_error_wait > http_error_wait_max: break
WaitExceeded(w) == w > http_error_wait_max

\* on_data without its `if "errors" in data` test: an errors payload is
\* handed to on_tweet like a tweet.
OnData_NoErrorsTest(line, rj) ==
    IF line = "garbage" THEN [raised |-> "JSONDecodeError", tweet |-> "none"]
    ELSE [raised |-> "none", tweet |-> IF rj THEN "Tweet" ELSE "json"]

\* on_data (streaming.py:136-143) on one non-blank line: the exception it
\* raises ("none" when it returns) and what it hands to on_tweet.
\*   json.loads raises on bytes that are not JSON;
\*   a top-level "errors" field raises PyTwitterError;
\*   return_json=True builds md.Tweet from data["data"], return_json=False
\*   passes the parsed dict on.
OnData(line, rj) ==
    IF line = "garbage" THEN [raised |-> "JSONDecodeError", tweet |-> "none"]
    ELSE IF line = "errors" THEN [raised |-> "PyTwitterError", tweet |-> "none"]
    ELSE [raised |-> "none", tweet |-> IF rj THEN "Tweet" ELSE "json"]

\* Line dispatch that drops blank lines instead of calling on_keep_alive.
Dispatch_SkipKeepAlive(line, rj) ==
    IF line # "blank"
    THEN LET d == OnData(line, rj) IN
         [raised |-> d.raised,
          called |-> IF d.raised = "none" THEN <<<<"on_tweet", d.tweet>>>> ELSE <<>>]
    ELSE [raised |-> "none", called |-> <<>>]

\* Line dispatch (streaming.py:107-110): the callbacks invoked for one line,
\* and the exception that leaves the loop, if any.
Dispatch(line, rj) ==
    IF line # "blank"
    THEN LET d == OnData(line, rj) IN
         [raised |-> d.raised,
          called |-> IF d.raised = "none" THEN <<<<"on_tweet", d.tweet>>>> ELSE <<>>]
    ELSE [raised |-> "none", called |-> <<<<"on_keep_alive", "none">>>>]

\* ------------------------------------------------------------- actions
\* A thread invokes sample(return_json=return_json).
SampleCall(t) ==
    /\ t \in callers
    /\ pc[t] = "idle"
    /\ budget < MaxEvents
    /\ budget' = budget + 1
    /\ pc' = Upd(pc, t, "check")
    /\ opened' = Obs(t, 0, opened)
    /\ consec' = Obs(t, 0, consec)
    /\ errs' = Obs(t, 0, errs)
    /\ sleeps' = Obs(t, <<>>, sleeps)
    /\ wire' = Obs(t, <<>>, wire)
    /\ calls' = Obs(t, <<>>, calls)
    /\ why' = Obs(t, "none", why)
    /\ outcome' = Obs(t, "none", outcome)
    /\ cancelAt' = Obs(t, "none", cancelAt)
    /\ linesAfter' = Obs(t, 0, linesAfter)
    /\ sawStop' = Obs(t, FALSE, sawStop)
    /\ closed' = Obs(t, FALSE, closed)
    /\ fails' = Obs(t, 0, fails)
    /\ openedAtCancel' = Obs(t, 0, openedAtCancel)
    /\ UNCHANGED <<running, auth, max_retries, callers, return_json, retries,
                   http_error_wait>>

\* streaming.py:185-186  if self.running: raise PyTwitterError("Stream is running")
SampleCheck(t) ==
    /\ pc[t] = "check"
    /\ IF running
       THEN /\ pc' = Upd(pc, t, "idle")
            /\ outcome' = Obs(t, "AlreadyRunning", outcome)
       ELSE /\ pc' = Upd(pc, t, "enter")
            /\ UNCHANGED outcome
    /\ UNCHANGED <<running, auth, max_retries, callers, return_json, retries,
                   http_error_wait, opened, consec, errs, sleeps, wire, calls,
                   why, cancelAt, linesAfter, sawStop, closed, env,
                   fails, openedAtCancel>>

\* streaming.py:188-204 build the arguments, then _connect, streaming.py:86-92:
\* the credential check, self.running = True, retries = 0, http_error_wait = 5.
ConnectEnter(t) ==
    /\ pc[t] = "enter"
    /\ IF ~auth
       THEN /\ pc' = Upd(pc, t, "idle")
            /\ outcome' = Obs(t, "AuthRequired", outcome)
            /\ UNCHANGED <<running, retries, http_error_wait>>
       ELSE /\ running' = TRUE
            /\ retries' = Upd(retries, t, 0)
            /\ http_error_wait' = Upd(http_error_wait, t, http_error_wait_init)
            /\ pc' = Upd(pc, t, "loop")
            /\ UNCHANGED outcome
    /\ UNCHANGED <<auth, max_retries, callers, return_json, opened, consec,
                   errs, sleeps, wire, calls, why, cancelAt, linesAfter,
                   sawStop, closed, env,
                   fails, openedAtCancel>>

\* streaming.py:95, the loop condition is false: the loop is left normally.
LoopExit(t) ==
    /\ pc[t] = "loop"
    /\ ~LoopCond(running, retries[t], max_retries)
    /\ pc' = Upd(pc, t, "finally")
    /\ why' = Obs(t, IF ~running THEN "stopped" ELSE "exhausted", why)
    /\ sawStop' = Obs(t, sawStop \/ ~running, sawStop)
    /\ UNCHANGED <<running, auth, max_retries, callers, return_json, retries,
                   http_error_wait, opened, consec, errs, sleeps, wire, calls,
                   outcome, cancelAt, linesAfter, closed, env,
                   fails, openedAtCancel>>

\* streaming.py:95-105, the loop condition is true, session.get answers 200.
Connect200(t) ==
    /\ pc[t] = "loop"
    /\ LoopCond(running, retries[t], max_retries)
    /\ budget < MaxEvents
    /\ budget' = budget + 1
    /\ opened' = Obs(t, opened + 1, opened)
    /\ consec' = Obs(t, 0, consec)
    /\ pc' = Upd(pc, t, "iter")
    /\ UNCHANGED <<running, auth, max_retries, callers, return_json, retries,
                   http_error_wait, errs, sleeps, wire, calls, why, outcome,
                   cancelAt, linesAfter, sawStop, closed,
                   fails, openedAtCancel>>

\* The non-200 branch without its on_request_error call.
ConnectError_NoCallback(t) ==
    /\ pc[t] = "loop"
    /\ LoopCond(running, retries[t], max_retries)
    /\ opened' = Obs(t, opened + 1, opened)
    /\ consec' = Obs(t, consec + 1, consec)
    /\ errs' = errs
    /\ fails' = Obs(t, fails + 1, fails)
    /\ retries' = Upd(retries, t, retries[t] + 1)
    /\ sleeps' = Obs(t, Append(sleeps, http_error_wait[t]), sleeps)
    /\ pc' = Upd(pc, t, "sleep")
    /\ UNCHANGED <<running, auth, max_retries, callers, return_json,
                   http_error_wait, wire, calls, why, outcome, cancelAt,
                   linesAfter, sawStop, closed, env,
                   openedAtCancel>>

\* The non-200 branch testing the budget before time.sleep: no sleep after
\* the failure that uses the budget up.
ConnectError_NoFinalSleep(t) ==
    /\ pc[t] = "loop"
    /\ LoopCond(running, retries[t], max_retries)
    /\ opened' = Obs(t, opened + 1, opened)
    /\ consec' = Obs(t, consec + 1, consec)
    /\ errs' = Obs(t, errs + 1, errs)
    /\ fails' = Obs(t, fails + 1, fails)
    /\ retries' = Upd(retries, t, retries[t] + 1)
    /\ IF retries[t] + 1 >= max_retries
       THEN /\ sleeps' = sleeps
            /\ pc' = Upd(pc, t, "loop")
       ELSE /\ sleeps' = Obs(t, Append(sleeps, http_error_wait[t]), sleeps)
            /\ pc' = Upd(pc, t, "sleep")
    /\ UNCHANGED <<running, auth, max_retries, callers, return_json,
                   http_error_wait, wire, calls, why, outcome, cancelAt,
                   linesAfter, sawStop, closed, env,
                   openedAtCancel>>

\* streaming.py:95-103 and 113-116, session.get answers another status:
\* on_request_error, retries += 1, time.sleep(http_error_wait) begins.
ConnectError(t) ==
    /\ pc[t] = "loop"
    /\ LoopCond(running, retries[t], max_retries)
    /\ opened' = Obs(t, opened + 1, opened)
    /\ consec' = Obs(t, consec + 1, consec)
    /\ errs' = Obs(t, errs + 1, errs)
    /\ fails' = Obs(t, fails + 1, fails)
    /\ retries' = Upd(retries, t, retries[t] + 1)
    /\ sleeps' = Obs(t, Append(sleeps, http_error_wait[t]), sleeps)
    /\ pc' = Upd(pc, t, "sleep")
    /\ UNCHANGED <<running, auth, max_retries, callers, return_json,
                   http_error_wait, wire, calls, why, outcome, cancelAt,
                   linesAfter, sawStop, closed, env,
                   openedAtCancel>>

\* streaming.py:96-103 and 121-122, session.get raises (connection refused,
\* timeout, ...): the exception is caught by `except Exception` and logged.
ConnectFault(t) ==
    /\ pc[t] = "loop"
    /\ LoopCond(running, retries[t], max_retries)
    /\ opened' = Obs(t, opened + 1, opened)
    /\ why' = Obs(t, "transport", why)
    /\ pc' = Upd(pc, t, "finally")
    /\ UNCHANGED <<running, auth, max_retries, callers, return_json, retries,
                   http_error_wait, consec, errs, sleeps, wire, calls, outcome,
                   cancelAt, linesAfter, sawStop, closed, env,
                   fails, openedAtCancel>>

\* The read loop taking a keep-alive as a sign of health: a blank line
\* resets retries and http_error_wait.
ReadLine_KeepAliveResets(t, line) ==
    /\ pc[t] = "iter"
    /\ budget < MaxEvents
    /\ budget' = budget + 1
    /\ LET d == Dispatch(line, return_json) IN
       /\ wire' = Obs(t, Append(wire, line), wire)
       /\ calls' = Obs(t, calls \o d.called, calls)
       /\ linesAfter' = Obs(t, IF cancelAt # "none" /\ d.called # <<>>
                               THEN Saturate(linesAfter) ELSE linesAfter,
                            linesAfter)
       /\ IF d.raised = "none"
          THEN /\ pc' = Upd(pc, t, "linecheck")
               /\ UNCHANGED why
          ELSE /\ pc' = Upd(pc, t, "finally")
               /\ why' = Obs(t, d.raised, why)
    /\ retries' = IF line = "blank" THEN Upd(retries, t, 0) ELSE retries
    /\ http_error_wait' = IF line = "blank"
                          THEN Upd(http_error_wait, t, http_error_wait_init)
                          ELSE http_error_wait
    /\ UNCHANGED <<running, auth, max_retries, callers, return_json, opened, consec, errs, sleeps, outcome,
                   cancelAt, sawStop, closed,
                   fails, openedAtCancel>>

\* streaming.py:106-110, iter_lines yields a line and it is dispatched.  An
\* exception of on_data leaves the loop through `except Exception`.
ReadLine(t, line) ==
    /\ pc[t] = "iter"
    /\ budget < MaxEvents
    /\ budget' = budget + 1
    /\ LET d == Dispatch(line, return_json) IN
       /\ wire' = Obs(t, Append(wire, line), wire)
       /\ calls' = Obs(t, calls \o d.called, calls)
       /\ linesAfter' = Obs(t, IF cancelAt # "none" /\ d.called # <<>>
                               THEN Saturate(linesAfter) ELSE linesAfter,
                            linesAfter)
       /\ IF d.raised = "none"
          THEN /\ pc' = Upd(pc, t, "linecheck")
               /\ UNCHANGED why
          ELSE /\ pc' = Upd(pc, t, "finally")
               /\ why' = Obs(t, d.raised, why)
    /\ UNCHANGED <<running, auth, max_retries, callers, return_json, retries,
                   http_error_wait, opened, consec, errs, sleeps, outcome,
                   cancelAt, sawStop, closed,
                   fails, openedAtCancel>>

\* streaming.py:106, the server closes the stream: iter_lines is exhausted,
\* the `with` block ends and the while condition is evaluated again.
StreamEnd(t) ==
    /\ pc[t] = "iter"
    /\ pc' = Upd(pc, t, "loop")
    /\ UNCHANGED <<running, auth, max_retries, callers, return_json, retries,
                   http_error_wait, obs, env>>

\* streaming.py:106 and 121-122, iter_lines raises (connection reset, read
\* timeout, ...): caught by `except Exception` and logged.
ReadFault(t) ==
    /\ pc[t] = "iter"
    /\ why' = Obs(t, "transport", why)
    /\ pc' = Upd(pc, t, "finally")
    /\ UNCHANGED <<running, auth, max_retries, callers, return_json, retries,
                   http_error_wait, opened, consec, errs, sleeps, wire, calls,
                   outcome, cancelAt, linesAfter, sawStop, closed, env,
                   fails, openedAtCancel>>

\* streaming.py:111-112  if not self.running: break
LineCheck(t) ==
    /\ pc[t] = "linecheck"
    /\ IF ~running
       THEN /\ pc' = Upd(pc, t, "loop")
            /\ sawStop' = Obs(t, TRUE, sawStop)
       ELSE /\ pc' = Upd(pc, t, "iter")
            /\ UNCHANGED sawStop
    /\ UNCHANGED <<running, auth, max_retries, callers, return_json, retries,
                   http_error_wait, opened, consec, errs, sleeps, wire, calls,
                   why, outcome, cancelAt, linesAfter, closed, env,
                   fails, openedAtCancel>>

\* streaming.py:116-120, time.sleep returns: the wait is doubled, and the
\* loop is left by `break` when it exceeds http_error_wait_max.
Wake(t) ==
    /\ pc[t] = "sleep"
    /\ http_error_wait' = Upd(http_error_wait, t, DoubleWait(http_error_wait[t]))
    /\ IF WaitExceeded(DoubleWait(http_error_wait[t]))
       THEN /\ pc' = Upd(pc, t, "finally")
            /\ why' = Obs(t, "backoff_cap", why)
       ELSE /\ pc' = Upd(pc, t, "loop")
            /\ UNCHANGED why
    /\ UNCHANGED <<running, auth, max_retries, callers, return_json, retries,
                   opened, consec, errs, sleeps, wire, calls, outcome,
                   cancelAt, linesAfter, sawStop, closed, env,
                   fails, openedAtCancel>>

\* The finally block without self.session.close().
Finally_NoClose(t) ==
    /\ pc[t] = "finally"
    /\ closed' = closed
    /\ running' = FALSE
    /\ outcome' = Obs(t, "returned", outcome)
    /\ pc' = Upd(pc, t, "idle")
    /\ UNCHANGED <<auth, max_retries, callers, return_json, retries,
                   http_error_wait, opened, consec, errs, sleeps, wire, calls,
                   why, cancelAt, linesAfter, sawStop, env,
                   fails, openedAtCancel>>

\* The finally block without self.running = False.
Finally_KeepRunning(t) ==
    /\ pc[t] = "finally"
    /\ closed' = Obs(t, TRUE, closed)
    /\ running' = running
    /\ outcome' = Obs(t, "returned", outcome)
    /\ pc' = Upd(pc, t, "idle")
    /\ UNCHANGED <<auth, max_retries, callers, return_json, retries,
                   http_error_wait, opened, consec, errs, sleeps, wire, calls,
                   why, cancelAt, linesAfter, sawStop, env,
                   fails, openedAtCancel>>

\* streaming.py:123-125  finally: self.session.close(); self.running = False.
\* _connect returns None and so does sample().
Finally(t) ==
    /\ pc[t] = "finally"
    /\ closed' = Obs(t, TRUE, closed)
    /\ running' = FALSE
    /\ outcome' = Obs(t, "returned", outcome)
    /\ pc' = Upd(pc, t, "idle")
    /\ UNCHANGED <<auth, max_retries, callers, return_json, retries,
                   http_error_wait, opened, consec, errs, sleeps, wire, calls,
                   why, cancelAt, linesAfter, sawStop, env,
                   fails, openedAtCancel>>

\* streaming.py:127-128  disconnect(): self.running = False, from any thread.
Disconnect ==
    /\ budget < MaxEvents
    /\ budget' = budget + 1
    /\ running' = FALSE
    /\ cancelAt' = IF pc[Observed] \in InCall /\ cancelAt = "none"
                   THEN Phase(pc[Observed]) ELSE cancelAt
    /\ openedAtCancel' = IF pc[Observed] \in InCall /\ cancelAt = "none"
                         THEN opened ELSE openedAtCancel
    /\ UNCHANGED <<auth, max_retries, callers, return_json, pc, retries,
                   http_error_wait, opened, consec, errs, sleeps, wire, calls,
                   why, outcome, linesAfter, sawStop, closed,
                   fails>>

\* streaming.py:106-110 and 121-122, iter_lines yields a well-formed line and
\* the callback it is dispatched to (on_tweet, on_keep_alive: methods the
\* user overrides) raises: caught by `except Exception` and logged.
CallbackRaise(t, line) ==
    /\ pc[t] = "iter"
    /\ line \in {"blank", "tweet"}
    /\ budget < MaxEvents
    /\ budget' = budget + 1
    /\ LET d == Dispatch(line, return_json) IN
       /\ wire' = Obs(t, Append(wire, line), wire)
       /\ calls' = Obs(t, calls \o d.called, calls)
       /\ linesAfter' = Obs(t, IF cancelAt # "none" /\ d.called # <<>>
                               THEN Saturate(linesAfter) ELSE linesAfter,
                            linesAfter)
    /\ why' = Obs(t, "callback", why)
    /\ pc' = Upd(pc, t, "finally")
    /\ UNCHANGED <<running, auth, max_retries, callers, return_json, retries,
                   http_error_wait, opened, consec, errs, sleeps, outcome,
                   cancelAt, sawStop, closed, fails, openedAtCancel>>

\* streaming.py:113-114 and 121-122, session.get answers a non-200 status and
\* on_request_error (a method the user overrides) raises: the exception
\* leaves the loop before retries += 1 and is caught by `except Exception`.
ErrorCallbackRaise(t) ==
    /\ pc[t] = "loop"
    /\ LoopCond(running, retries[t], max_retries)
    /\ opened' = Obs(t, opened + 1, opened)
    /\ consec' = Obs(t, consec + 1, consec)
    /\ errs' = Obs(t, errs + 1, errs)
    /\ fails' = Obs(t, fails + 1, fails)
    /\ why' = Obs(t, "callback", why)
    /\ pc' = Upd(pc, t, "finally")
    /\ UNCHANGED <<running, auth, max_retries, callers, return_json, retries,
                   http_error_wait, sleeps, wire, calls, outcome, cancelAt,
                   linesAfter, sawStop, closed, openedAtCancel, env>>

Next ==
    \/ \E t \in Threads : SampleCall(t)
    \/ \E t \in Threads : SampleCheck(t)
    \/ \E t \in Threads : ConnectEnter(t)
    \/ \E t \in Threads : LoopExit(t)
    \/ \E t \in Threads : Connect200(t)
    \/ \E t \in Threads : ConnectError(t)
    \/ \E t \in Threads : ConnectFault(t)
    \/ \E t \in Threads, line \in Lines : ReadLine(t, line)
    \/ \E t \in Threads : StreamEnd(t)
    \/ \E t \in Threads : ReadFault(t)
    \/ \E t \in Threads : LineCheck(t)
    \/ \E t \in Threads : Wake(t)
    \/ \E t \in Threads : Finally(t)
    \/ \E t \in Threads, line \in Lines : CallbackRaise(t, line)
    \/ \E t \in Threads : ErrorCallbackRaise(t)
    \/ Disconnect

Spec == Init /\ [][Next]_vars

\* ------------------------------------------------------------- claims
Last(q) == q[Len(q)]

\* The observed call has returned or raised.
Ended == outcome # "none"

\* C1.  At most one streaming session is active per instance: no two
\* threads are inside the _connect loop with a connection opened.  (Stated
\* as claimed; the code does not keep it.)
C1_OneSessionAtATime ==
    Cardinality({t \in Threads : pc[t] \in ConnOpen}) <= 1

\* C2.  The backoff sleep after the N-th consecutive non-success response
\* lasts min(5 * 2^(N-1), 320).  (Stated as claimed; the code does not keep
\* it.)
C2_SleepIsBackoffOfConsecutive ==
    pc[Observed] = "sleep" =>
        Last(sleeps) = Min(http_error_wait_init * Pow2(consec - 1),
                           http_error_wait_max)

\* C3.  A 200 response resets the retry count: while the call reads a
\* stream its retry count is 0.  (Stated as claimed; the code does not keep
\* it.)
C3_SuccessResetsRetries ==
    pc[Observed] \in {"iter", "linecheck"} => retries[Observed] = 0

\* C4.  A call that ends on an uninterrupted run of failed connection
\* attempts has opened exactly max_retries connections.  (Stated as claimed;
\* the code does not keep it.)
C4_ExhaustionOpensMaxRetries ==
    (Ended /\ why \in {"exhausted", "backoff_cap"} /\ consec = opened)
        => opened = max_retries

\* C5.  A call that ends because the retry budget is exhausted ends with a
\* RetriesExhausted error, never with a normal return.  (Stated as claimed;
\* the code does not keep it.)
C5_ExhaustionIsReported ==
    (Ended /\ why = "exhausted") => outcome = "RetriesExhausted"

\* C6.  After a disconnect() made while the call is streaming, the read
\* loop dispatches at most one more line.  (Stated as claimed; the code does
\* not keep it.)
C6_AtMostOneLineAfterDisconnect ==
    cancelAt = "streaming" => linesAfter <= 1

\* C7.  A disconnect() made between the invocation of sample() and its
\* return is never lost: the flag it cleared is still clear whenever the
\* call is in its loop.  (Stated as claimed; the code does not keep it.)
C7_CancelRequestKept ==
    (cancelAt # "none" /\ pc[Observed] \in InLoop) => running = FALSE

\* C8.  A line carrying a top-level "errors" field never invokes on_tweet
\* and takes the fatal path: dispatching it invokes no callback, leaves the
\* retry count alone, starts no sleep, and the call goes to its finally
\* block, from which it opens no connection and only returns.
C8_ErrorsPayloadIsFatal ==
    /\ [][(Len(wire') = Len(wire) + 1 /\ Last(wire') = "errors")
            => /\ calls' = calls
               /\ retries'[Observed] = retries[Observed]
               /\ errs' = errs
               /\ sleeps' = sleeps
               /\ opened' = opened
               /\ why' = "PyTwitterError"
               /\ pc'[Observed] = "finally"]_vars
    /\ [][pc[Observed] = "finally"
            => /\ pc'[Observed] \in {"finally", "idle"}
               /\ opened' = opened
               /\ sleeps' = sleeps
               /\ calls' = calls
               /\ retries'[Observed] = retries[Observed]]_vars

\* C8 witness: an errors payload has been read after a failed attempt, and
\* the call has returned.
C8_Witness ==
    /\ wire # <<>> /\ Last(wire) = "errors"
    /\ retries[Observed] = 1
    /\ outcome = "returned"

\* C9.  A protocol error (an errors payload, an unparseable line) is the
\* outcome of the call, not a normal return.  (Stated as claimed; the code
\* does not keep it.)
C9_ProtocolErrorSurfaced ==
    (Ended /\ why \in {"PyTwitterError", "JSONDecodeError"})
        => outcome # "returned"

\* C10.  A transport fault is handled like a non-success status:
\* on_request_error is invoked, the retry count is incremented and, the
\* budget allowing, the call sleeps and reconnects.  (Stated as claimed; the
\* code does not keep it.)
C10_TransportFaultIsRetried ==
    [][(why # "transport" /\ why' = "transport")
         => /\ errs' = errs + 1
            /\ retries'[Observed] = retries[Observed] + 1
            /\ (retries'[Observed] < max_retries => pc'[Observed] = "sleep")]_vars

\* C11.  Guaranteed release: a call that passed the credential check leaves
\* its loop only through the finally block, whatever ended it, and when it
\* finishes session.close() has run and running is False.
C11_ReleaseOnEveryExit ==
    /\ [][pc[Observed] \in InLoop
            => pc'[Observed] \in InLoop \cup {"finally"}]_vars
    /\ [][(pc[Observed] \in InLoop \cup {"finally"} /\ pc'[Observed] = "idle")
            => (closed' /\ running' = FALSE)]_vars

\* C11 witness: a call ended by an exception of a callback has finished.
C11_Witness ==
    Ended /\ why = "callback" /\ closed /\ ~running

\* The lines of q that are well formed (blank, or a payload without errors).
GoodLines(q) == {i \in 1..Len(q) : q[i] \in {"blank", "tweet"}}

\* C12.  One callback per well-formed line, in wire order: the i-th
\* callback is on_keep_alive when the i-th line is blank and on_tweet when
\* it is a payload, and no line is skipped, repeated or reordered.
C12_CallbacksFollowWire ==
    /\ Len(calls) = Cardinality(GoodLines(wire))
    /\ \A i \in 1..Len(calls) :
         /\ i \in GoodLines(wire)
         /\ calls[i][1] = IF wire[i] = "blank" THEN "on_keep_alive" ELSE "on_tweet"

\* C12 witness: keep-alives and payloads interleaved on one connection.
C12_Witness ==
    /\ wire = <<"blank", "tweet", "blank">>
    /\ Len(calls) = 3

\* C13.  on_request_error fires once per connection attempt that got a
\* non-200 status, and for no other attempt.
C13_OneErrorCallbackPerFailure ==
    /\ errs = fails
    /\ errs <= opened

\* C13 witness: two failed attempts and a successful one in one call.
C13_Witness ==
    fails = 2 /\ opened = 3 /\ pc[Observed] = "iter"

\* C14.  return_json=True hands on_tweet the raw JSON data, return_json=False
\* a typed Tweet.  (Stated as claimed; the code does not keep it.)
C14_ReturnJsonMeansRaw ==
    \A i \in 1..Len(calls) :
        calls[i][1] = "on_tweet"
            => calls[i][2] = IF return_json THEN "json" ELSE "Tweet"

\* C15.  The backoff delay hitting the cap never ends the session: a call
\* whose loop was left by the retry logic has used its whole budget.
\* (Stated as claimed; the code does not keep it.)
C15_CapNeverEndsSession ==
    (pc[Observed] = "finally" /\ why \in {"exhausted", "backoff_cap"})
        => retries[Observed] >= max_retries

\* C16, as claimed.  No backoff sleep follows the failure that brings the
\* retry count to max_retries: a sleeping call has budget left.  (The code
\* does not keep it.)
C16_NoSleepAfterFinalFailure ==
    pc[Observed] = "sleep" => retries[Observed] < max_retries

\* C16, amended.  Every increment of the retry count is followed by a sleep
\* of the current backoff delay, the increment that reaches max_retries
\* included; the count is compared with max_retries only after the sleep.
C16_SleepAfterEveryFailure ==
    /\ [][retries'[Observed] = retries[Observed] + 1
            => /\ pc'[Observed] = "sleep"
               /\ sleeps' = Append(sleeps, http_error_wait[Observed])]_vars
    /\ [][(pc[Observed] = "sleep" /\ pc'[Observed] # "sleep")
            => pc'[Observed] \in {"loop", "finally"}]_vars

\* C16 witness: the call sleeps after the failure that used the budget up.
C16_Witness ==
    /\ pc[Observed] = "sleep"
    /\ retries[Observed] = max_retries
    /\ max_retries = 3
    /\ sleeps = <<5, 10, 20>>

\* C17.  Dispatching a blank line changes neither the retry count nor the
\* backoff delay, and invokes no on_request_error.
C17_KeepAliveKeepsBackoff ==
    [][(Len(wire') = Len(wire) + 1 /\ Last(wire') = "blank")
         => /\ retries' = retries
            /\ http_error_wait' = http_error_wait
            /\ errs' = errs]_vars

\* C17 witness: a keep-alive has been dispatched on a connection that
\* followed a failed attempt.
C17_Witness ==
    /\ wire # <<>> /\ Last(wire) = "blank"
    /\ retries[Observed] = 1
    /\ http_error_wait[Observed] = 10

\* C18.  A disconnect() made during a backoff sleep is honoured when the
\* sleep ends: the call opens no further connection.  (Stated as claimed;
\* the code does not keep it.)
C18_NoConnectionAfterSleepCancel ==
    cancelAt = "sleep" => opened = openedAtCancel

\* C19.  running is never stale: while it is True some thread is inside
\* _connect, so once every call has returned it is False.
C19_RunningImpliesSession ==
    running => \E t \in Threads : pc[t] \in InLoop \cup {"finally"}

\* C19 witness: two calls and a disconnect() have overlapped, one call has
\* ended and running is True on behalf of the other.
C19_Witness ==
    /\ running
    /\ Ended
    /\ cancelAt # "none"
    /\ pc["t2"] \in InLoop

\* Number of doublings after which the backoff delay exceeds the cap.
CapSteps ==
    CHOOSE k \in 1..16 :
        /\ http_error_wait_init * Pow2(k) > http_error_wait_max
        /\ http_error_wait_init * Pow2(k - 1) <= http_error_wait_max

\* C20.  Within a call retries and http_error_wait never decrease, every
\* sleep lasts at most 320, and on_request_error is invoked at most
\* min(max_retries, 7) times.
C20_BackoffMonotoneAndBounded ==
    /\ [](/\ CapSteps = 7
          /\ \A i \in 1..Len(sleeps) : sleeps[i] <= http_error_wait_max
          /\ errs <= Min(max_retries, CapSteps))
    /\ [][pc[Observed] \in InLoop
            => /\ retries'[Observed] >= retries[Observed]
               /\ http_error_wait'[Observed] >= http_error_wait[Observed]]_vars

\* C20 witness: seven failures in a call with max_retries = 8, the last
\* sleep at the cap.
C20_Witness ==
    /\ max_retries = 8
    /\ errs = 7
    /\ Last(sleeps) = http_error_wait_max

====
